---- MODULE Spec2Model ----
(***************************************************************************)
(* Model of the command-line contact manager in src/main.py: the validated *)
(* value types, Record, AddressBook, pickle persistence, the command       *)
(* handlers behind input_error, and the main loop.                         *)
(*                                                                         *)
(* Python strings are TLA+ strings; a character is a string of length 1.   *)
(* A datetime is <<year, month, day, tod>> where tod = 0 is 00:00:00.000000*)
(* and tod = 1 stands for any later instant of the same day.               *)
(* A Record is [name, phones, birthday]; birthday = None when unset.       *)
(* The AddressBook (a dict, insertion ordered) is the sequence of its      *)
(* <<key, record>> items.                                                  *)
(***************************************************************************)
EXTENDS Integers, Sequences, FiniteSets, TLC

VARIABLES
    pc,          \* main(): "start", "loop", "done", "crashed", "aborted"; "api" for direct calls
    file,        \* addressbook.pkl on disk
    book,        \* the AddressBook object in memory
    user_input,  \* the last line read by input()
    call,        \* the last method called directly on the classes
    result,      \* what the last step printed / returned / raised, and the
                 \* reading of the clock (datetime.today()) it took, if any
    loads,       \* number of times the file was opened for reading
    saves        \* number of times the file was opened for writing

vars == <<pc, file, book, user_input, call, result, loads, saves>>

----------------------------------------------------------------------------
\* Bounds of the model.

\* A phone is added only while the record holds fewer than MaxPhones phones.
MaxPhones == 2

----------------------------------------------------------------------------
\* Strings.

Char(s, i) == SubSeq(s, i, i)

DigitStr == <<"0", "1", "2", "3", "4", "5", "6", "7", "8", "9">>

\* \d of the re module, restricted to the ASCII characters the model draws from.
IsDigit(c) == \E i \in 1..10 : DigitStr[i] = c

DigitVal(c) == (CHOOSE i \in 1..10 : DigitStr[i] = c) - 1

AllDigits(s) == \A i \in 1..Len(s) : IsDigit(Char(s, i))

RECURSIVE ToInt(_)
ToInt(s) ==
    IF Len(s) = 0 THEN 0
    ELSE 10 * ToInt(SubSeq(s, 1, Len(s) - 1)) + DigitVal(Char(s, Len(s)))

\* "%02d" and "%04d"
Pad2(n) == DigitStr[((n \div 10) % 10) + 1] \o DigitStr[(n % 10) + 1]

Pad4(n) == Pad2(n \div 100) \o Pad2(n % 100)

\* sep.join(seq)
RECURSIVE Join(_, _)
Join(seq, sep) ==
    IF Len(seq) = 0 THEN ""
    ELSE IF Len(seq) = 1 THEN seq[1]
    ELSE seq[1] \o sep \o Join(Tail(seq), sep)

UpperCase == "ABCDEFGHIJKLMNOPQRSTUVWXYZ"

LowerCase == "abcdefghijklmnopqrstuvwxyz"

LowerChar(c) ==
    IF \E i \in 1..26 : Char(UpperCase, i) = c
    THEN Char(LowerCase, CHOOSE i \in 1..26 : Char(UpperCase, i) = c)
    ELSE c

\* str.lower()
RECURSIVE lower(_)
lower(s) == IF Len(s) = 0 THEN "" ELSE LowerChar(Char(s, 1)) \o lower(Tail(s))

IsSpace(c) == c \in {" ", "\t", "\n", "\r"}

\* str.strip().split(): the maximal runs of non-whitespace characters.
RECURSIVE SplitFrom(_, _, _)
SplitFrom(s, i, cur) ==
    IF i > Len(s) THEN (IF cur = "" THEN <<>> ELSE <<cur>>)
    ELSE IF IsSpace(Char(s, i))
         THEN (IF cur = "" THEN <<>> ELSE <<cur>>) \o SplitFrom(s, i + 1, "")
         ELSE SplitFrom(s, i + 1, cur \o Char(s, i))

split(s) == SplitFrom(s, 1, "")

----------------------------------------------------------------------------
\* Validated value types.

None == <<>>

\* Name.__init__: raises ValueError when the value is empty.
NameOk(value) == value # ""

PhoneLen == 10

\* Phone.validate_phone: re.compile(r"^\d{10}$").match(phone) is not None.
\* match anchors at the start; $ matches at the end of the string and also
\* just before a newline that ends the string.
validate_phone(phone) ==
    /\ Len(phone) >= PhoneLen
    /\ \A i \in 1..PhoneLen : IsDigit(Char(phone, i))
    /\ \/ Len(phone) = PhoneLen
       \/ Len(phone) = PhoneLen + 1 /\ Char(phone, PhoneLen + 1) = "\n"

\* Calendar of the datetime module.
IsLeap(y) == (y % 4 = 0) /\ ((y % 100 # 0) \/ (y % 400 = 0))

DaysInMonth(y, m) ==
    IF m = 2 THEN (IF IsLeap(y) THEN 29 ELSE 28)
    ELSE IF m \in {4, 6, 9, 11} THEN 30 ELSE 31

RECURSIVE DaysBeforeMonth(_, _)
DaysBeforeMonth(y, m) ==
    IF m = 1 THEN 0 ELSE DaysBeforeMonth(y, m - 1) + DaysInMonth(y, m - 1)

DaysBeforeYear(y) ==
    (y - 1) * 365 + ((y - 1) \div 4) - ((y - 1) \div 100) + ((y - 1) \div 400)

\* date.toordinal()
ToOrdinal(y, m, d) == DaysBeforeYear(y) + DaysBeforeMonth(y, m) + d

ValidYMD(y, m, d) ==
    /\ y >= 1
    /\ m \in 1..12
    /\ d >= 1
    /\ d <= DaysInMonth(y, m)

Dots(s) == {i \in 1..Len(s) : Char(s, i) = "."}

\* The three fields of a "%d.%m.%Y" text, or <<>> when the text has another shape:
\* %d and %m take one or two digits, %Y exactly four.  (strptime also takes a
\* blank before a one-digit day; no text of the model starts with a blank.)
DateFields(s) ==
    IF Cardinality(Dots(s)) # 2 THEN <<>>
    ELSE LET d1 == CHOOSE i \in Dots(s) : \A j \in Dots(s) : i <= j
             d2 == CHOOSE i \in Dots(s) : \A j \in Dots(s) : j <= i
             f1 == SubSeq(s, 1, d1 - 1)
             f2 == SubSeq(s, d1 + 1, d2 - 1)
             f3 == SubSeq(s, d2 + 1, Len(s))
         IN  IF /\ Len(f1) \in {1, 2} /\ AllDigits(f1)
                /\ Len(f2) \in {1, 2} /\ AllDigits(f2)
                /\ Len(f3) = 4 /\ AllDigits(f3)
             THEN <<ToInt(f3), ToInt(f2), ToInt(f1)>>
             ELSE <<>>

\* Birthday.validate_date: datetime.strptime(date_text, "%d.%m.%Y") does not raise.
validate_date(date_text) ==
    LET f == DateFields(date_text)
    IN  f # <<>> /\ ValidYMD(f[1], f[2], f[3])

\* datetime.strptime(value, "%d.%m.%Y") of a valid text: midnight of that day.
strptime(value) ==
    LET f == DateFields(value) IN <<f[1], f[2], f[3], 0>>

\* datetime.strftime('%d.%m.%Y')
strftime(dt) == Pad2(dt[3]) \o "." \o Pad2(dt[2]) \o "." \o Pad4(dt[1])

\* Order of datetimes: by day, then by time of day.
DtLt(a, b) ==
    LET oa == ToOrdinal(a[1], a[2], a[3])
        ob == ToOrdinal(b[1], b[2], b[3])
    IN  oa < ob \/ (oa = ob /\ a[4] < b[4])

DtLe(a, b) == a = b \/ DtLt(a, b)

\* The calendar date n days after ordinal day o, as <<y, m, d>> (n small).
RECURSIVE FromOrdinalIn(_, _, _)
FromOrdinalIn(y, m, k) ==
    IF k <= DaysInMonth(y, m) THEN <<y, m, k>>
    ELSE IF m = 12 THEN FromOrdinalIn(y + 1, 1, k - DaysInMonth(y, m))
    ELSE FromOrdinalIn(y, m + 1, k - DaysInMonth(y, m))

\* dt + timedelta(days=days): the time of day is kept.
PlusDays(dt, days) ==
    LET ymd == FromOrdinalIn(dt[1], dt[2], dt[3] + days)
    IN  <<ymd[1], ymd[2], ymd[3], dt[4]>>

----------------------------------------------------------------------------
\* Exceptions and their messages (str(e)); the source's texts are Ukrainian.

ErrName == "Name cannot be empty"

ErrPhone == "Phone number must contain 10 digits"

ErrDate == "Wrong date format. Use DD.MM.YYYY"

ErrReplace == "day is out of range for month"

NoExc == ""

----------------------------------------------------------------------------
\* Record.  Each method yields the record as the call leaves it and the
\* exception it raised (NoExc when it returned).

\* Record.__init__ (for a non-empty name)
Record(name) == [name |-> name, phones |-> <<>>, birthday |-> None]

add_phone(rec, phone) ==
    IF validate_phone(phone)
    THEN [rec |-> [rec EXCEPT !.phones = Append(@, phone)], exc |-> NoExc]
    ELSE [rec |-> rec, exc |-> ErrPhone]

remove_phone(rec, phone) ==
    [rec |-> [rec EXCEPT !.phones = SelectSeq(@, LAMBDA p : p # phone)], exc |-> NoExc]

\* Mutant of edit_phone: the old phone is not removed.
edit_phone_no_remove(rec, old_phone, new_phone) == add_phone(rec, new_phone)

\* remove_phone has run when add_phone raises
edit_phone(rec, old_phone, new_phone) ==
    add_phone(remove_phone(rec, old_phone).rec, new_phone)

\* the first phone equal to the given string, or None
find_phone(rec, phone) ==
    LET hits == SelectSeq(rec.phones, LAMBDA p : p = phone)
    IN  IF hits = <<>> THEN None ELSE <<hits[1]>>

\* Record.add_birthday: Birthday(birthday) raises before the assignment
rec_add_birthday(rec, birthday) ==
    IF validate_date(birthday)
    THEN [rec |-> [rec EXCEPT !.birthday = strptime(birthday)], exc |-> NoExc]
    ELSE [rec |-> rec, exc |-> ErrDate]

\* Record.__str__
RecordStr(rec) ==
    "Contact name: " \o rec.name \o ", phones: " \o Join(rec.phones, "; ")
    \o (IF rec.birthday # None THEN ", Birthday: " \o strftime(rec.birthday) ELSE "")

----------------------------------------------------------------------------
\* AddressBook: the dict self.data as the sequence of its items, in
\* insertion order.

EmptyBook == <<>>

Item(key, rec) == [key |-> key, rec |-> rec]

Keys(b) == {b[i].key : i \in 1..Len(b)}

IndexOf(b, name) == CHOOSE i \in 1..Len(b) : b[i].key = name

\* self.data[record.name.value] = record: a new key goes last, an existing
\* key keeps its place and gets the new record.
add_record(b, rec) ==
    IF rec.name \in Keys(b)
    THEN [b EXCEPT ![IndexOf(b, rec.name)] = Item(rec.name, rec)]
    ELSE Append(b, Item(rec.name, rec))

\* self.data.get(name, None), as <<>> or <<record>>
find(b, name) ==
    IF name \in Keys(b) THEN <<b[IndexOf(b, name)].rec>> ELSE None

delete(b, name) == SelectSeq(b, LAMBDA it : it.key # name)

\* A method that mutates the Record object that find returned.
SetRecord(b, name, rec) == [b EXCEPT ![IndexOf(b, name)].rec = rec]

\* record.birthday.value.replace(year=today.year) raises ValueError for
\* 29 February when today's year is not a leap year.
ReplaceRaises(bd, today) == bd[2] = 2 /\ bd[3] = 29 /\ ~IsLeap(today[1])

replace_year(bd, today) == <<today[1], bd[2], bd[3], bd[4]>>

InWindow(bd, today, days) ==
    /\ DtLe(today, replace_year(bd, today))
    /\ DtLt(replace_year(bd, today), PlusDays(today, days))

\* AddressBook.get_upcoming_birthdays with today = datetime.today()
get_upcoming_birthdays(b, today, days) ==
    IF \E i \in 1..Len(b) : b[i].rec.birthday # None /\ ReplaceRaises(b[i].rec.birthday, today)
    THEN [exc |-> ErrReplace, list |-> <<>>]
    ELSE LET hit == SelectSeq(b, LAMBDA it :
                        it.rec.birthday # None /\ InWindow(it.rec.birthday, today, days))
         IN  [exc |-> NoExc, list |-> [i \in 1..Len(hit) |-> hit[i].rec.name]]

----------------------------------------------------------------------------
\* Persistence.  pickle writes the object graph: the dict's items, and for
\* each object its class and its __dict__; a datetime is written as its
\* fields.  An optional reference is <<>> (None) or <<object>>.

\* Mutant of PickleRecord: the birthday is not written.
PickleRecord_no_birthday(rec) ==
    [cls      |-> "Record",
     name     |-> [cls |-> "Name", value |-> rec.name],
     phones   |-> [i \in 1..Len(rec.phones) |-> [cls |-> "Phone", value |-> rec.phones[i]]],
     birthday |-> <<>>]

PickleRecord(rec) ==
    [cls      |-> "Record",
     name     |-> [cls |-> "Name", value |-> rec.name],
     phones   |-> [i \in 1..Len(rec.phones) |-> [cls |-> "Phone", value |-> rec.phones[i]]],
     birthday |-> IF rec.birthday = None THEN <<>>
                  ELSE <<[cls |-> "Birthday",
                          year |-> rec.birthday[1], month |-> rec.birthday[2],
                          day |-> rec.birthday[3], tod |-> rec.birthday[4]]>>]

\* pickle.dump(book, f)
pickle_dump(b) == [i \in 1..Len(b) |-> <<b[i].key, PickleRecord(b[i].rec)>>]

UnpickleRecord(o) ==
    [name     |-> o.name.value,
     phones   |-> [i \in 1..Len(o.phones) |-> o.phones[i].value],
     birthday |-> IF o.birthday = <<>> THEN None
                  ELSE <<o.birthday[1].year, o.birthday[1].month,
                         o.birthday[1].day, o.birthday[1].tod>>]

\* pickle.load(f) of well-formed data
pickle_load(data) == [i \in 1..Len(data) |-> Item(data[i][1], UnpickleRecord(data[i][2]))]

\* The file on disk: absent, present and not unpicklable, or a pickled book.
FileAbsent == [state |-> "absent", data |-> <<>>]

FileCorrupt == [state |-> "corrupt", data |-> <<>>]

\* save_data: open(filename, "wb") replaces the file
save_data(b) == [state |-> "ok", data |-> pickle_dump(b)]

\* Mutant of load_data: every exception is caught and an empty book returned.
load_data_catch_all(f) ==
    IF f.state = "ok" THEN [raised |-> FALSE, book |-> pickle_load(f.data)]
    ELSE [raised |-> FALSE, book |-> EmptyBook]

\* load_data: only FileNotFoundError is caught
load_data(f) ==
    IF f.state = "absent" THEN [raised |-> FALSE, book |-> EmptyBook]
    ELSE IF f.state = "ok" THEN [raised |-> FALSE, book |-> pickle_load(f.data)]
    ELSE [raised |-> TRUE, book |-> EmptyBook]

----------------------------------------------------------------------------
\* Command handlers.  A handler body yields the book as it leaves it and
\* either the string it returns or the exception it raises; tag names the
\* return statement (or the exception class), text is the string.

Return(b, tag, text) == [book |-> b, raised |-> FALSE, tag |-> tag, text |-> text]

Raise(b, text) == [book |-> b, raised |-> TRUE, tag |-> "ValueError", text |-> text]

\* Mutant of input_error: the exception is not caught.
input_error_reraise(o) == o

\* input_error: except Exception as e: return str(e)
input_error(o) == IF o.raised THEN [o EXCEPT !.raised = FALSE] ELSE o

NotFound(b, name) == Return(b, "not_found", "Contact named " \o name \o " not found.")

add_birthday_body(args, b) ==
    IF Len(args) < 2 THEN Return(b, "usage", "Please give a name and a birth date.")
    ELSE LET name == args[1]
             birthday == args[2]
         IN  IF find(b, name) = None THEN NotFound(b, name)
             ELSE LET r == rec_add_birthday(find(b, name)[1], birthday)
                  IN  IF r.exc # NoExc THEN Raise(SetRecord(b, name, r.rec), r.exc)
                      ELSE Return(SetRecord(b, name, r.rec), "birthday_added",
                                  "Birthday for " \o name \o " added.")

add_birthday(args, b) == input_error(add_birthday_body(args, b))

show_birthday_body(args, b) ==
    IF Len(args) < 1 THEN Return(b, "usage", "Please give a name.")
    ELSE LET name == args[1]
         IN  IF find(b, name) = None THEN NotFound(b, name)
             ELSE IF find(b, name)[1].birthday = None
             THEN Return(b, "no_birthday", "No birthday information for " \o name \o ".")
             ELSE Return(b, "birthday",
                         "Birthday of " \o name \o ": "
                         \o strftime(find(b, name)[1].birthday) \o ".")

show_birthday(args, b) == input_error(show_birthday_body(args, b))

\* get_upcoming_birthdays is called with its default, days=7
DefaultDays == 7

birthdays_body(args, b, today) ==
    LET u == get_upcoming_birthdays(b, today, DefaultDays)
    IN  IF u.exc # NoExc THEN Raise(b, u.exc)
        ELSE IF u.list = <<>> THEN Return(b, "no_birthdays", "No birthdays in the next week.")
        ELSE Return(b, "birthdays", Join(u.list, "\n"))

birthdays(args, b, today) == input_error(birthdays_body(args, b, today))

\* Mutant of add_contact_body: a new Record is made and put into the book
\* whether or not the name is there.
add_contact_body_overwrite(args, b) ==
    IF Len(args) < 2 THEN Return(b, "usage", "Please give a name and a phone.")
    ELSE LET name == args[1]
             phone == args[2]
             fresh == find(b, name) = None
             b1 == add_record(b, Record(name))
             r == add_phone(find(b1, name)[1], phone)
         IN  IF r.exc # NoExc THEN Raise(SetRecord(b1, name, r.rec), r.exc)
             ELSE IF fresh
             THEN Return(SetRecord(b1, name, r.rec), "added", "Contact added.")
             ELSE Return(SetRecord(b1, name, r.rec), "updated", "Contact updated.")

\* The new Record is put into the book before add_phone validates the phone.
add_contact_body(args, b) ==
    IF Len(args) < 2 THEN Return(b, "usage", "Please give a name and a phone.")
    ELSE LET name == args[1]
             phone == args[2]
             fresh == find(b, name) = None
         IN  IF fresh /\ ~NameOk(name) THEN Raise(b, ErrName)
             ELSE LET b1 == IF fresh THEN add_record(b, Record(name)) ELSE b
                      r == add_phone(find(b1, name)[1], phone)
                  IN  IF r.exc # NoExc THEN Raise(SetRecord(b1, name, r.rec), r.exc)
                      ELSE IF fresh
                      THEN Return(SetRecord(b1, name, r.rec), "added", "Contact added.")
                      ELSE Return(SetRecord(b1, name, r.rec), "updated", "Contact updated.")

add_contact(args, b) == input_error(add_contact_body(args, b))

change_contact_body(args, b) ==
    IF Len(args) < 3 THEN Return(b, "usage", "Please give a name, the old and the new phone.")
    ELSE LET name == args[1]
             old_phone == args[2]
             new_phone == args[3]
         IN  IF find(b, name) = None THEN NotFound(b, name)
             ELSE LET r == edit_phone(find(b, name)[1], old_phone, new_phone)
                  IN  IF r.exc # NoExc THEN Raise(SetRecord(b, name, r.rec), r.exc)
                      ELSE Return(SetRecord(b, name, r.rec), "changed",
                                  "Phone number for " \o name \o " changed.")

change_contact(args, b) == input_error(change_contact_body(args, b))

show_phone_body(args, b) ==
    IF Len(args) < 1 THEN Return(b, "usage", "Please give a name.")
    ELSE LET name == args[1]
         IN  IF find(b, name) = None THEN NotFound(b, name)
             ELSE Return(b, "phones", Join(find(b, name)[1].phones, ", "))

show_phone(args, b) == input_error(show_phone_body(args, b))

show_all_contacts_body(b) ==
    IF b = EmptyBook THEN Return(b, "empty_book", "Address book is empty.")
    ELSE Return(b, "all", Join([i \in 1..Len(b) |-> RecordStr(b[i].rec)], "\n"))

show_all_contacts(b) == input_error(show_all_contacts_body(b))

\* parse_input: parts[0] raises IndexError when the line holds no token.
parse_input(line) ==
    LET parts == split(line)
    IN  IF parts = <<>> THEN [raised |-> TRUE, command |-> "", args |-> <<>>]
        ELSE [raised |-> FALSE, command |-> lower(parts[1]), args |-> Tail(parts)]

----------------------------------------------------------------------------
\* Inputs the model draws from.

Names == {"Alice", "Bob"}

PhoneA == "0501234567"

PhoneB == "0509999999"

\* Tokens given as phones on the command line (split leaves no whitespace in a token).
PhoneArgs == {PhoneA, PhoneB, "12345"}

\* Tokens given as birth dates on the command line.
DateArgs == {"26.02.2000", "29.02.2000", "31.04.2001"}

\* Readings of the clock: a day of a common year and a day of a leap year,
\* each at midnight exactly and later in the day.
Clocks == {<<2026, 2, 26, 0>>, <<2026, 2, 26, 1>>, <<2024, 2, 27, 0>>, <<2024, 2, 27, 1>>}

\* The lines typed at the prompt: every form of every command for Alice,
\* a few for Bob.
Lines ==
    {"", "   ", "hello", "exit", "close", "EXIT", "all", "birthdays", "unknown",
     "add", "add Alice", "change Alice 0501234567", "phone", "add-birthday Bob",
     "show-birthday", "  Add   Bob 0501234567  extra ",
     "add Bob 12345", "change Bob 0501234567 12345", "add-birthday Bob 29.02.2000"}
    \cup {"add Alice " \o p : p \in PhoneArgs}
    \cup {"change Alice " \o p \o " " \o q : p \in PhoneArgs, q \in PhoneArgs}
    \cup {"phone " \o n : n \in Names}
    \cup {"add-birthday Alice " \o d : d \in DateArgs}
    \cup {"show-birthday " \o n : n \in Names}

Parsed == [l \in Lines |-> parse_input(l)]

LinesOf(commands) == {l \in Lines : ~Parsed[l].raised /\ Parsed[l].command \in commands}

EmptyLines == {l \in Lines : Parsed[l].raised}

ExitLines == LinesOf({"close", "exit"})

HelloLines == LinesOf({"hello"})

AddLines == LinesOf({"add"})

ChangeLines == LinesOf({"change"})

PhoneLines == LinesOf({"phone"})

AllLines == LinesOf({"all"})

AddBirthdayLines == LinesOf({"add-birthday"})

ShowBirthdayLines == LinesOf({"show-birthday"})

BirthdaysLines == LinesOf({"birthdays"})

KnownCommands ==
    {"close", "exit", "hello", "add", "change", "phone", "all",
     "add-birthday", "show-birthday", "birthdays"}

UnknownLines == {l \in Lines : ~Parsed[l].raised /\ Parsed[l].command \notin KnownCommands}

\* A book an earlier run saved.
SavedBook ==
    <<Item("Alice", [name |-> "Alice", phones |-> <<PhoneB>>, birthday |-> <<2000, 2, 26, 0>>])>>

InitialFiles == {FileAbsent, FileCorrupt, save_data(SavedBook)}

NoResult == [status |-> "none", tag |-> "", text |-> "", list |-> <<>>, today |-> <<>>]

NoCall == [method |-> "", args |-> <<>>, days |-> 0]

Within(b) == \A i \in 1..Len(b) : Len(b[i].rec.phones) <= MaxPhones

----------------------------------------------------------------------------
\* main()

Init ==
    /\ pc = "start"
    /\ file \in InitialFiles
    /\ book = EmptyBook
    /\ user_input = ""
    /\ call = NoCall
    /\ result = NoResult
    /\ loads = 0
    /\ saves = 0

\* book = load_data(); the welcome line is printed when it returns
LoadData ==
    /\ pc = "start"
    /\ loads' = loads + 1
    /\ LET r == load_data(file)
       IN  /\ book' = r.book
           /\ pc' = IF r.raised THEN "aborted" ELSE "loop"
           /\ result' = IF r.raised
                        THEN [NoResult EXCEPT !.status = "raised", !.tag = "UnpicklingError"]
                        ELSE [NoResult EXCEPT !.status = "printed", !.tag = "welcome",
                                              !.text = "Welcome to the assistant!"]
    /\ UNCHANGED <<file, user_input, call, saves>>

\* print(handler(args, book)) and back to the prompt; today is the clock
\* reading the handler took (<<>> when it took none)
Respond(line, o, today) ==
    /\ Within(o.book)
    /\ user_input' = line
    /\ book' = o.book
    /\ result' = [NoResult EXCEPT !.status = IF o.raised THEN "raised" ELSE "printed",
                                  !.tag = o.tag, !.text = o.text, !.today = today]
    /\ pc' = IF o.raised THEN "crashed" ELSE "loop"
    /\ UNCHANGED <<file, call, loads, saves>>

\* parse_input raises IndexError: nothing catches it and the process ends
CmdEmpty ==
    /\ pc = "loop"
    /\ \E line \in EmptyLines :
        /\ user_input' = line
        /\ result' = [NoResult EXCEPT !.status = "raised", !.tag = "IndexError",
                                      !.text = "list index out of range"]
        /\ pc' = "crashed"
    /\ UNCHANGED <<file, book, call, loads, saves>>

CmdExit ==
    /\ pc = "loop"
    /\ \E line \in ExitLines :
        /\ user_input' = line
        /\ file' = save_data(book)
        /\ saves' = saves + 1
        /\ result' = [NoResult EXCEPT !.status = "printed", !.tag = "goodbye",
                                      !.text = "Good bye!"]
        /\ pc' = "done"
    /\ UNCHANGED <<book, call, loads>>

CmdHello ==
    /\ pc = "loop"
    /\ \E line \in HelloLines :
        Respond(line, Return(book, "hello", "How can I help you?"), <<>>)

\* Mutant of CmdAdd: the book is saved after the command.
CmdAdd_autosave ==
    /\ pc = "loop"
    /\ \E line \in AddLines :
        LET o == add_contact(Parsed[line].args, book)
        IN  /\ Within(o.book)
            /\ user_input' = line
            /\ book' = o.book
            /\ result' = [NoResult EXCEPT !.status = "printed", !.tag = o.tag, !.text = o.text]
            /\ pc' = "loop"
            /\ file' = save_data(o.book)
            /\ saves' = saves + 1
    /\ UNCHANGED <<call, loads>>

CmdAdd ==
    /\ pc = "loop"
    /\ \E line \in AddLines : Respond(line, add_contact(Parsed[line].args, book), <<>>)

CmdChange ==
    /\ pc = "loop"
    /\ \E line \in ChangeLines : Respond(line, change_contact(Parsed[line].args, book), <<>>)

CmdPhone ==
    /\ pc = "loop"
    /\ \E line \in PhoneLines : Respond(line, show_phone(Parsed[line].args, book), <<>>)

CmdAll ==
    /\ pc = "loop"
    /\ \E line \in AllLines : Respond(line, show_all_contacts(book), <<>>)

CmdAddBirthday ==
    /\ pc = "loop"
    /\ \E line \in AddBirthdayLines : Respond(line, add_birthday(Parsed[line].args, book), <<>>)

CmdShowBirthday ==
    /\ pc = "loop"
    /\ \E line \in ShowBirthdayLines : Respond(line, show_birthday(Parsed[line].args, book), <<>>)

\* the handler reads the clock
CmdBirthdays ==
    /\ pc = "loop"
    /\ \E line \in BirthdaysLines, today \in Clocks :
        Respond(line, birthdays(Parsed[line].args, book, today), today)

CmdUnknown ==
    /\ pc = "loop"
    /\ \E line \in UnknownLines :
        Respond(line, Return(book, "unknown", "Invalid command."), <<>>)

Next ==
    \/ LoadData
    \/ CmdEmpty
    \/ CmdExit
    \/ CmdHello
    \/ CmdAdd
    \/ CmdChange
    \/ CmdPhone
    \/ CmdAll
    \/ CmdAddBirthday
    \/ CmdShowBirthday
    \/ CmdBirthdays
    \/ CmdUnknown

Spec == Init /\ [][Next]_vars

----------------------------------------------------------------------------
\* Direct calls of Record's methods, with arbitrary strings, on one Record
\* held by a book.

\* Strings given to the methods: valid phones, a valid phone followed by a
\* newline, too short, too long, a letter among the digits, the empty string.
Strings == {PhoneA, PhoneB, PhoneA \o "\n", "050123456", "05012345678", "05012x4567", ""}

DateStrings == {"26.02.2000", "1.3.1999", "31.04.2001", ""}

InitRecord ==
    /\ pc = "api"
    /\ file = FileAbsent
    /\ book = add_record(EmptyBook, Record("Alice"))
    /\ user_input = ""
    /\ call = NoCall
    /\ result = NoResult
    /\ loads = 0
    /\ saves = 0

\* The method ran on the Record: r is what it yields, ret what it returned.
Called(method, args, r, ret) ==
    /\ Within(SetRecord(book, "Alice", r.rec))
    /\ book' = SetRecord(book, "Alice", r.rec)
    /\ call' = [NoCall EXCEPT !.method = method, !.args = args]
    /\ result' = [NoResult EXCEPT !.status = IF r.exc # NoExc THEN "raised" ELSE "returned",
                                  !.tag = IF r.exc # NoExc THEN "ValueError" ELSE "",
                                  !.text = r.exc, !.list = ret]
    /\ UNCHANGED <<pc, file, user_input, loads, saves>>

RecAddPhone ==
    /\ pc = "api"
    /\ \E phone \in Strings :
        Called("add_phone", <<phone>>, add_phone(find(book, "Alice")[1], phone), <<>>)

RecRemovePhone ==
    /\ pc = "api"
    /\ \E phone \in Strings :
        Called("remove_phone", <<phone>>, remove_phone(find(book, "Alice")[1], phone), <<>>)

RecEditPhone ==
    /\ pc = "api"
    /\ \E old_phone \in Strings, new_phone \in Strings :
        Called("edit_phone", <<old_phone, new_phone>>,
               edit_phone(find(book, "Alice")[1], old_phone, new_phone), <<>>)

RecFindPhone ==
    /\ pc = "api"
    /\ \E phone \in Strings :
        Called("find_phone", <<phone>>, [rec |-> find(book, "Alice")[1], exc |-> NoExc],
               find_phone(find(book, "Alice")[1], phone))

RecAddBirthday ==
    /\ pc = "api"
    /\ \E birthday \in DateStrings :
        Called("add_birthday", <<birthday>>,
               rec_add_birthday(find(book, "Alice")[1], birthday), <<>>)

NextRecord ==
    \/ RecAddPhone
    \/ RecRemovePhone
    \/ RecEditPhone
    \/ RecFindPhone
    \/ RecAddBirthday

SpecRecord == InitRecord /\ [][NextRecord]_vars

----------------------------------------------------------------------------
\* Direct calls of AddressBook's methods.

BookNames == Names \cup {""}

\* Birth dates: on the clock's day, the day after, inside the week, seven
\* days after the clock's day (of either clock), 29 February.
BookDates == {"26.02.2000", "27.02.1980", "1.3.1999", "5.3.1990", "29.02.2000"}

DaysArgs == {0, 1, DefaultDays}

InitBook ==
    /\ pc = "api"
    /\ file = FileAbsent
    /\ book = EmptyBook
    /\ user_input = ""
    /\ call = NoCall
    /\ result = NoResult
    /\ loads = 0
    /\ saves = 0

BookCalled(method, args, days, b, exc, ret, today) ==
    /\ book' = b
    /\ call' = [method |-> method, args |-> args, days |-> days]
    /\ result' = [NoResult EXCEPT !.status = IF exc # NoExc THEN "raised" ELSE "returned",
                                  !.tag = IF exc # NoExc THEN "ValueError" ELSE "",
                                  !.text = exc, !.list = ret, !.today = today]
    /\ UNCHANGED <<pc, file, user_input, loads, saves>>

\* book.add_record(Record(name))
BookAddRecord ==
    /\ pc = "api"
    /\ \E name \in BookNames :
        IF NameOk(name)
        THEN BookCalled("add_record", <<name>>, 0, add_record(book, Record(name)), NoExc, <<>>, <<>>)
        ELSE BookCalled("add_record", <<name>>, 0, book, ErrName, <<>>, <<>>)

BookDelete ==
    /\ pc = "api"
    /\ \E name \in BookNames :
        BookCalled("delete", <<name>>, 0, delete(book, name), NoExc, <<>>, <<>>)

BookFind ==
    /\ pc = "api"
    /\ \E name \in BookNames :
        BookCalled("find", <<name>>, 0, book, NoExc,
                   IF find(book, name) = None THEN <<>> ELSE <<name>>, <<>>)

\* book.find(name).add_birthday(birthday)
BookAddBirthday ==
    /\ pc = "api"
    /\ \E name \in Keys(book), birthday \in BookDates :
        LET r == rec_add_birthday(find(book, name)[1], birthday)
        IN  BookCalled("add_birthday", <<name, birthday>>, 0,
                       SetRecord(book, name, r.rec), r.exc, <<>>, <<>>)

BookUpcoming ==
    /\ pc = "api"
    /\ \E days \in DaysArgs, today \in Clocks :
        LET u == get_upcoming_birthdays(book, today, days)
        IN  BookCalled("get_upcoming_birthdays", <<>>, days, book, u.exc, u.list, today)

NextBook ==
    \/ BookAddRecord
    \/ BookDelete
    \/ BookFind
    \/ BookAddBirthday
    \/ BookUpcoming

SpecBook == InitBook /\ [][NextBook]_vars

----------------------------------------------------------------------------
\* Vocabulary of the properties.

\* A string of exactly 10 decimal digits and nothing else.
TenDigits(s) == Len(s) = 10 /\ \A i \in 1..10 : Char(s, i) \in {DigitStr[j] : j \in 1..10}

PhonesOf(b, name) == b[IndexOf(b, name)].rec.phones

BirthdayOf(b, name) == b[IndexOf(b, name)].rec.birthday

Contains(phones, p) == \E i \in 1..Len(phones) : phones[i] = p

\* The lines that main hands to a command handler.
HandlerLines ==
    AddLines \cup ChangeLines \cup PhoneLines \cup AllLines
    \cup AddBirthdayLines \cup ShowBirthdayLines \cup BirthdaysLines

\* Same names in the same order, and for every name the same phones (order
\* and duplicates) and the same birthday.
SameBook(a, b) ==
    /\ Len(a) = Len(b)
    /\ \A i \in 1..Len(a) :
        /\ a[i].key = b[i].key
        /\ a[i].rec.name = b[i].rec.name
        /\ a[i].rec.phones = b[i].rec.phones
        /\ a[i].rec.birthday = b[i].rec.birthday

----------------------------------------------------------------------------
\* C1: the add command with a name and a valid 10-digit phone prints "added"
\* exactly when the book held no record under the name and "updated"
\* otherwise; afterwards find(name) is a record whose phones are the previous
\* ones (none for a new record) followed by the given phone, and whose
\* birthday is the previous one.
C1_AddCreatesOrUpdates ==
    [][(pc = "loop" /\ user_input' \in AddLines /\ Len(Parsed[user_input'].args) >= 2
        /\ TenDigits(Parsed[user_input'].args[2]))
       => LET name == Parsed[user_input'].args[1]
              phone == Parsed[user_input'].args[2]
              absent == find(book, name) = None
          IN  /\ result'.status = "printed"
              /\ absent <=> (result'.tag = "added" /\ result'.text = "Contact added.")
              /\ ~absent <=> (result'.tag = "updated" /\ result'.text = "Contact updated.")
              /\ find(book', name) # None
              /\ PhonesOf(book', name)
                   = Append(IF absent THEN <<>> ELSE PhonesOf(book, name), phone)
              /\ BirthdayOf(book', name) = (IF absent THEN None ELSE BirthdayOf(book, name))
      ]_vars

\* The second add for Alice printed "updated": both phones and the birthday are there.
C1_Witness ==
    /\ user_input = "add Alice 0509999999"
    /\ result.tag = "updated"
    /\ find(book, "Alice") # None
    /\ PhonesOf(book, "Alice") = <<PhoneA, PhoneB>>
    /\ BirthdayOf(book, "Alice") # None

\* C2: no input line ends the session with an uncaught exception; the
\* session ends only when an exit or close command is processed.
C2_LoopNeverRaises ==
    /\ pc # "crashed"
    /\ pc = "done" => user_input \in ExitLines

\* C3 as stated: for valid phones old and new, equal or not, edit_phone on a
\* record containing old leaves a record without old and with new; on a
\* record without old it succeeds and appends new.
C3_EditPhoneAsStated ==
    [][(call'.method = "edit_phone" /\ TenDigits(call'.args[1]) /\ TenDigits(call'.args[2]))
       => LET old == call'.args[1]
              new == call'.args[2]
          IN  IF Contains(PhonesOf(book, "Alice"), old)
              THEN /\ ~Contains(PhonesOf(book', "Alice"), old)
                   /\ Contains(PhonesOf(book', "Alice"), new)
              ELSE /\ result'.status = "returned"
                   /\ PhonesOf(book', "Alice") = Append(PhonesOf(book, "Alice"), new)
      ]_vars

\* C3 amended: on a record containing old the result contains new and, when
\* old differs from new, does not contain old; on a record without old the
\* call succeeds and appends new.
C3_EditPhone ==
    [][(call'.method = "edit_phone" /\ TenDigits(call'.args[1]) /\ TenDigits(call'.args[2]))
       => LET old == call'.args[1]
              new == call'.args[2]
          IN  IF Contains(PhonesOf(book, "Alice"), old)
              THEN /\ old # new => ~Contains(PhonesOf(book', "Alice"), old)
                   /\ Contains(PhonesOf(book', "Alice"), new)
                   /\ result'.status = "returned"
              ELSE /\ result'.status = "returned"
                   /\ PhonesOf(book', "Alice") = Append(PhonesOf(book, "Alice"), new)
      ]_vars

\* edit_phone(PhoneA, PhoneB) returned: the record holds PhoneB and no PhoneA.
C3_Witness ==
    /\ pc = "api"
    /\ call.method = "edit_phone"
    /\ call.args = <<PhoneA, PhoneB>>
    /\ result.status = "returned"
    /\ PhonesOf(book, "Alice") = <<PhoneB, PhoneB>>

\* C4: get_upcoming_birthdays(days) returns, in insertion order, exactly the
\* names of the records whose birthday, re-anchored to the current year, is
\* a date d with today <= d < today + days, today being the calendar date.
UpcomingByDate(b, today, days) ==
    LET t == ToOrdinal(today[1], today[2], today[3])
        hit == SelectSeq(b, LAMBDA it :
                   /\ it.rec.birthday # None
                   /\ LET d == ToOrdinal(today[1], it.rec.birthday[2], it.rec.birthday[3])
                      IN  t <= d /\ d < t + days)
    IN  [i \in 1..Len(hit) |-> hit[i].rec.name]

C4_UpcomingWindow ==
    (pc = "api" /\ call.method = "get_upcoming_birthdays" /\ result.status = "returned")
    => result.list = UpcomingByDate(book, result.today, call.days)

\* C5: every phone stored in every record is a string of exactly 10 decimal
\* digits with no other character before, between or after them.
C5_PhonesAreTenDigits ==
    \A i \in 1..Len(book) :
        \A j \in 1..Len(book[i].rec.phones) : TenDigits(book[i].rec.phones[j])

\* C6: save followed by load yields a book with the same names in the same
\* order and, for every name, the same phones and the same birthday: for the
\* book in memory at any time, and for the file the exit command wrote.
C6_RoundTrip ==
    /\ pc \in {"loop", "done"} =>
        /\ ~load_data(save_data(book)).raised
        /\ SameBook(load_data(save_data(book)).book, book)
    /\ pc = "done" =>
        /\ ~load_data(file).raised
        /\ SameBook(load_data(file).book, book)

\* A saved book of two records, with a repeated phone, with and without a birthday.
C6_Witness ==
    /\ pc = "done"
    /\ Len(book) = 2
    /\ \E i \in 1..2 : book[i].rec.phones = <<PhoneA, PhoneA>>
    /\ \E i \in 1..2 : book[i].rec.birthday # None
    /\ \E i \in 1..2 : book[i].rec.birthday = None

\* C7: the book is loaded exactly once, before the first command is read;
\* the file is written only while an exit or close command is processed,
\* once, with the book in memory, and no command is processed after that.
C7_LoadOnceSaveAtExit ==
    /\ [](/\ pc = "start" => (loads = 0 /\ saves = 0 /\ user_input = "" /\ result = NoResult)
          /\ pc # "start" => loads = 1
          /\ saves = (IF pc = "done" THEN 1 ELSE 0))
    /\ [][/\ pc # "done"
          /\ (file' # file \/ saves' # saves) =>
                /\ pc = "loop"
                /\ user_input' \in ExitLines
                /\ saves' = saves + 1
                /\ file' = save_data(book)
                /\ book' = book
                /\ pc' = "done"
       ]_vars

\* The exit command was processed on a book that commands had changed.
C7_Witness ==
    /\ pc = "done"
    /\ user_input \in ExitLines
    /\ loads = 1
    /\ saves = 1
    /\ Len(book) = 2
    /\ file = save_data(book)

\* C8: load where no file exists returns an empty book without an error;
\* load where the file exists and cannot be unpickled raises, and main ends
\* before it reads a command.
C8_LoadMissingOrCorrupt ==
    [][/\ pc # "aborted"
       /\ (pc = "start" /\ file.state = "absent") =>
            (pc' = "loop" /\ book' = EmptyBook /\ result'.status = "printed")
       /\ (pc = "start" /\ file.state = "corrupt") =>
            (pc' = "aborted" /\ result'.status = "raised" /\ user_input' = "")
      ]_vars

\* Startup aborted on the corrupt file.
C8_Witness ==
    /\ pc = "aborted"
    /\ file = FileCorrupt
    /\ loads = 1
    /\ result.status = "raised"
    /\ user_input = ""

\* C9: every command handler returns a string and never raises, whatever
\* its arguments and the book.
C9_HandlersNeverRaise ==
    user_input \in HandlerLines =>
        /\ result.status = "printed"
        /\ pc = "loop"

\* The ValueError of re-anchoring 29 February came back as the handler's string.
C9_Witness ==
    /\ user_input = "birthdays"
    /\ result.status = "printed"
    /\ result.tag = "ValueError"
    /\ result.text = ErrReplace
    /\ pc = "loop"

\* C10: whenever a handler returns an error message (too few arguments,
\* contact not found, a phone or birthday validation failure) the book is
\* exactly as it was before the command.
C10_ErrorLeavesBook ==
    [][(pc = "loop" /\ user_input' \in HandlerLines
        /\ result'.tag \in {"usage", "not_found", "ValueError"})
       => book' = book
      ]_vars

====
